---- MODULE Spec2Model ----
(***************************************************************************)
(* Preprocessing and dataset assembly of the hematoma-expansion notebooks  *)
(* (CNN_Model_2.ipynb, Multimodal_Model_2.ipynb).                          *)
(*                                                                         *)
(* The parts of this module:                                               *)
(*   SpecPipe    one NIfTI file going through get_processed_images /       *)
(*               get_processed_images_mask, one function call per step;    *)
(*   SpecVoxel   the float32 voxel arithmetic of extract_hematoma;         *)
(*   SpecExtract the arrays of extract_hematoma, statement by statement;   *)
(*   SpecScale   the cell that standardizes the clinical columns;          *)
(*   SpecFactorize the cell that encodes the anticoagulant-use column;     *)
(*   Spec        the notebook cells that shuffle, split, augment, label    *)
(*               and concatenate the class arrays (both notebooks);        *)
(*   SpecAngles  the cells with a list of up to MaxAngles rotation angles  *)
(*               (SpecAnglesFair: the same, every enabled step taken);     *)
(*   SpecRepeat  the cells run twice on the same input;                    *)
(*   SpecTen     a case file and then the cells, for ten cases per class.  *)
(*                                                                         *)
(* A volume is its shape and the set of value ranges its voxels lie in.    *)
(* Voxel values are fixed point: One units are the value 1.0.              *)
(***************************************************************************)
EXTENDS Integers, Sequences, FiniteSets, TLC

\* ------------------------------------------------------------------ bounds

\* Largest native in-plane extent drawn for a file (pixels).
MaxExtent == 258
\* Largest magnitude of floating-point noise a resampling at exact grid
\* positions leaves on a voxel, in fixed-point units.
NoiseEps == 1

\* Units in one step of the tenth decimal place (image.round(10)).
Quantum == 4 * NoiseEps
\* The value 1.0.
One == 20 * Quantum
\* Largest overshoot of the cubic spline beyond the range of its input.
Overshoot == One \div 10

\* ------------------------------------------------------------ arithmetic

Min(a, b) == IF a <= b THEN a ELSE b
Max(a, b) == IF a >= b THEN a ELSE b

\* round() of Python 3 and numpy's .round(0): nearest integer to num/den,
\* ties to the even integer (num >= 0, den > 0).
RoundHalfEven(num, den) ==
    LET q == num \div den
        r == num % den
    IN  IF 2 * r < den THEN q
        ELSE IF 2 * r > den THEN q + 1
        ELSE IF q % 2 = 0 THEN q ELSE q + 1

\* int(x / 2) of Python: the quotient truncated toward zero.
TruncHalf(x) == IF x >= 0 THEN x \div 2 ELSE -((-x) \div 2)

\* ------------------------------------------------------------ voxel values

\* A volume's values: a set of ranges <<lo, hi>>; a voxel lies in one of them.
Zeros == {<<0, 0>>}
Lo(S) == CHOOSE l \in {r[1] : r \in S} : \A r \in S : l <= r[1]
Hi(S) == CHOOSE h \in {r[2] : r \in S} : \A r \in S : h >= r[2]

\* ndimage.zoom / ndimage.rotate at positions off the voxel grid: order-3
\* spline interpolation, mode='constant' with cval 0.  The result lies
\* between the extremes of the input and 0, widened by the spline's overshoot;
\* an all-zero volume stays all zero.
Spline(S) ==
    IF S \subseteq Zeros THEN S
    ELSE {<<Min(Lo(S), 0) - Overshoot, Max(Hi(S), 0) + Overshoot>>}

\* ndimage.rotate at positions on the voxel grid (the spline reproduces the
\* samples up to floating-point noise).
Noisy(S) == {<<r[1] - NoiseEps, r[2] + NoiseEps>> : r \in S}

\* (a variant that halves the values above 1 instead of setting them to 1)
ClipHalving(S) ==
    {<<Max(0, r[1]), IF r[2] > One THEN r[2] \div 2 ELSE Max(0, r[2])>> : r \in S}
\* image[image < 0] = 0; image[image > 1] = 1
Clip01(S) == {<<Max(0, Min(One, r[1])), Max(0, Min(One, r[2]))>> : r \in S}

\* image[image < 0.2] = 0; image[image >= 0.2] = 1
Threshold == One \div 5
Binarize(S) ==
    UNION {(IF r[1] < Threshold THEN {<<0, 0>>} ELSE {}) \cup
           (IF r[2] >= Threshold THEN {<<One, One>>} ELSE {}) : r \in S}

\* image.round(10): to the nearest step of the tenth decimal place.
RoundTo10(v) == ((v + Quantum \div 2) \div Quantum) * Quantum
Round10(S) == {<<RoundTo10(r[1]), RoundTo10(r[2])>> : r \in S}

\* image[image < 0] = 0; image[image > 100] = 0, written into the array that
\* was passed in (boolean-mask assignment is in place).
ZeroedInPlace(S) ==
    UNION {(IF r[1] < 0 \/ r[2] > 100 * One THEN {<<0, 0>>} ELSE {}) \cup
           (IF Max(r[1], 0) <= Min(r[2], 100 * One)
            THEN {<<Max(r[1], 0), Min(r[2], 100 * One)>>}
            ELSE {}) : r \in S}
\* (a variant that clamps the samples above 100 HU to 1)
density_clamping(S) ==
    UNION {(IF r[1] < 0 THEN {<<0, 0>>} ELSE {}) \cup
           (IF r[2] > 100 * One THEN {<<One, One>>} ELSE {}) \cup
           (IF Max(r[1], 0) <= Min(r[2], 100 * One)
            THEN {<<Max(r[1], 0) \div 100, Min(r[2], 100 * One) \div 100>>}
            ELSE {}) : r \in S}
\* density_scaling: samples below 0 or above 100 HU become 0, then / 100.
\* (raw samples are in HU, counted in the same units: 100 HU = 100 * One)
density_scaling(S) ==
    UNION {(IF r[1] < 0 \/ r[2] > 100 * One THEN {<<0, 0>>} ELSE {}) \cup
           (IF Max(r[1], 0) <= Min(r[2], 100 * One)
            THEN {<<Max(r[1], 0) \div 100, Min(r[2], 100 * One) \div 100>>}
            ELSE {}) : r \in S}

\* --------------------------------------------------------- the pipeline

VARIABLES
    kind,       \* "image" (get_processed_images) or "mask" (.._mask)
    pc,         \* the next call of get_processed_images(_mask)
    header,     \* the NIfTI header: pixdim[1], pixdim[3] in 1/1000 mm, dim[1..3]
    shape,      \* image.shape
    image,      \* the values of the array
    padding,    \* the zero rows unify put on each of the four planar sides
    slices,     \* the array along Z: resampled slice k, or 0 for an all-zero slice
    fdata       \* the values of the array object load.get_fdata() returned

pipeVars == <<kind, pc, header, shape, image, padding, slices, fdata>>

\* One voxel of extract_hematoma's arrays (float32 values, see FOne below).
VARIABLES
    vpc,        \* "astype", "extract" or "extracted"
    original,   \* the voxel of get_processed_images' result, then of original
    mask,       \* the voxel of mask
    hematoma    \* the voxel of hematoma

voxelVars == <<vpc, original, mask, hematoma>>

\* The notebook cells that assemble the data set.  A variable indexed by
\* class holds the notebook's pair of arrays, e.g. train["expansion"] is
\* expansion_train and train["no_expansion"] is no_expansion_train.
VARIABLES
    nb,                 \* "cnn" (CNN_Model_2) or "mm" (Multimodal_Model_2)
    cell,               \* the next cell to run
    files,              \* files in each image directory (sorted listing)
    rows,               \* rows of each csv table ("mm")
    failing,            \* the directory holding a file that cannot be processed, or <<>>
    angles,             \* the list of rotation angles of the rotation cell
    random_seed,        \* the seed given to Python's random module
    tabular_train_val,  \* tabular_<class>_train_val ("mm")
    image_train_val,    \* image_<class>_train_val ("mm")
    tabular_test,       \* tabular_<class>_test ("mm")
    image_test,         \* <class>_test ("cnn"), image_<class>_test ("mm")
    train_val,          \* <class>_train_val
    train,              \* <class>_train
    val,                \* <class>_val
    tabular_train,      \* tabular_<class>_train ("mm")
    image_train,        \* image_<class>_train ("mm")
    tabular_val,        \* tabular_<class>_val ("mm")
    image_val,          \* image_<class>_val ("mm")
    loop,               \* j, i and the range bound n of the rotation loops
    label_train, label_val, label_test,
    x_train, x_val, x_test,     \* image_x_train, .. in "mm"
    tabular_x_train, tabular_x_val, tabular_x_test,
    y_train, y_val, y_test,
    run,                \* 1, or 2 once the notebook has been run again
    first               \* what the first run emitted

inputVars == <<nb, files, rows, failing, angles>>
arrayVars == <<tabular_train_val, image_train_val, tabular_test, image_test>>
splitVars == <<train_val, train, val>>
dividedVars == <<tabular_train, image_train, tabular_val, image_val>>
labelVars == <<label_train, label_val, label_test>>
outVars == <<x_train, x_val, x_test, tabular_x_train, tabular_x_val,
             tabular_x_test, y_train, y_val, y_test>>
asmVars == <<inputVars, cell, random_seed, arrayVars, splitVars, dividedVars,
             loop, labelVars, outVars, run, first>>

\* The "Standardize continuous variables" cell of the multimodal notebook.
VARIABLES
    spc,        \* the column being standardized and the next statement for it
    csv,        \* the four tables as pd.read_csv returned them
    df,         \* df_expansion_train, df_no_expansion_train, df_expansion_test, df_no_expansion_test
    scaler      \* the StandardScaler's fitted mean_ and scale_

tableVars == <<spc, csv, df, scaler>>

\* One call of extract_hematoma(path, path_mask), array by array.
VARIABLES
    xpc,        \* the next statement of extract_hematoma
    listdir,      \* os.listdir(path): the file names in the order the OS gives
    listdir_mask, \* os.listdir(path_mask), likewise
    list,       \* the number of files in path
    list_mask,  \* the number of files in path_mask
    unreadable, \* the file whose processing raises, or <<>>
    originals,  \* the array original: one volume per file of path
    masks,      \* the array mask: one volume per file of path_mask
    hematomas   \* the array hematoma: what extract_hematoma returns

cohortVars == <<xpc, listdir, listdir_mask, list, list_mask, unreadable,
                originals, masks, hematomas>>

\* The cell that encodes the "Anticoagulant use" column of the four tables.
VARIABLES
    fpc,            \* the next statement of the factorize cell (1..4), or 5
    anticoagulant,  \* the column of each table as pd.read_csv returned it
    encoded         \* the column of each frame once its statement has run

factorVars == <<fpc, anticoagulant, encoded>>

restVars == <<tableVars, cohortVars, factorVars>>

vars == <<pipeVars, voxelVars, asmVars, restVars>>

Class == {"expansion", "no_expansion"}
Role == {"train_val", "test"}
None == 0 - 1
NoArrays == [c \in Class |-> <<>>]
NoLoop == [j |-> 0, i |-> 0, n |-> None]
NoPadding == [anterior |-> 0, posterior |-> 0, right |-> 0, left |-> 0]

\* The parts of the state a specification does not use.
PipeIdle ==
    /\ kind = "none" /\ pc = "idle" /\ shape = <<0, 0, 0>> /\ image = {}
    /\ header = [pixdim1 |-> 0, pixdim3 |-> 0, dim1 |-> 0, dim2 |-> 0, dim3 |-> 0]
    /\ padding = NoPadding /\ slices = <<>> /\ fdata = {}
VoxelIdle == vpc = "idle" /\ original = 0 /\ mask = 0 /\ hematoma = 0
TableIdle ==
    /\ spc = [col |-> 0, step |-> 0] /\ csv = <<>> /\ df = <<>> /\ scaler = <<>>
CohortIdle ==
    /\ xpc = "idle" /\ list = 0 /\ list_mask = 0 /\ unreadable = <<>>
    /\ listdir = <<>> /\ listdir_mask = <<>>
    /\ originals = <<>> /\ masks = <<>> /\ hematomas = <<>>
FactorIdle == fpc = 0 /\ anticoagulant = <<>> /\ encoded = <<>>
RestIdle == TableIdle /\ CohortIdle /\ FactorIdle
\* The kernel before any cell has run.
Fresh ==
    /\ random_seed = None
    /\ tabular_train_val = NoArrays /\ image_train_val = NoArrays
    /\ tabular_test = NoArrays /\ image_test = NoArrays
    /\ train_val = NoArrays /\ train = NoArrays /\ val = NoArrays
    /\ tabular_train = NoArrays /\ image_train = NoArrays
    /\ tabular_val = NoArrays /\ image_val = NoArrays
    /\ loop = NoLoop
    /\ label_train = NoArrays /\ label_val = NoArrays /\ label_test = NoArrays
    /\ x_train = <<>> /\ x_val = <<>> /\ x_test = <<>>
    /\ tabular_x_train = <<>> /\ tabular_x_val = <<>> /\ tabular_x_test = <<>>
    /\ y_train = <<>> /\ y_val = <<>> /\ y_test = <<>>
AsmIdle ==
    /\ nb = "none" /\ cell = "idle" /\ run = 0 /\ first = <<>>
    /\ files = [d \in Class \X Role |-> 0] /\ rows = [d \in Class \X Role |-> 0]
    /\ failing = <<>> /\ angles = <<>>
    /\ Fresh

new_spacing == 2
new_slices == 80
unify_extent == 513
image_size == 256
resize_base == 512

\* The files read: native extents, spacings and slice counts.
Extents == (MaxExtent - 4)..MaxExtent
PixdimXY == {430, 500, 1000}
PixdimZ == {625, 1000, 1004, 2000, 5000}
SliceCounts == {40, 159, 160, 161, 163, 200}
\* A volume of samples v HU.
Samples(hu) == {<<v * One, v * One>> : v \in hu}
RawImage == {{<<0, 100 * One>>}, {<<-1000 * One, 3000 * One>>},
             Samples({0 - 5, 0, 50}), Samples({100, 105})}
RawMask == {{<<0, 0>>, <<One, One>>}, {<<0, 0>>}}

\* Output extent of ndimage.zoom along one axis: int(round(n * zoom)), with
\* zoom = num / den.
ZoomExtent(n, num, den) == RoundHalfEven(n * num, den)

\* header['pixdim'][3].round(2), in 1/100 mm.
z_axis_spacing(hdr) == RoundHalfEven(hdr.pixdim3, 10)

\* (a variant that truncates the product instead of rounding it)
slices_resliced_truncated(hdr) ==
    (hdr.dim3 * z_axis_spacing(hdr)) \div (100 * new_spacing)

\* int((slices * spacing_factor).round(0)), spacing_factor = z_axis_spacing / new_spacing
slices_resliced_(hdr) ==
    RoundHalfEven(hdr.dim3 * z_axis_spacing(hdr), 100 * new_spacing)

\* The Z slices ndimage.zoom returns, numbered from the first.
Resampled(n) == [k \in 1..n |-> k]
\* (a variant that removes the slices at the far end)
DeleteLast(seq, num_reduce) == SubSeq(seq, 1, Len(seq) - Min(num_reduce, Len(seq)))
\* np.delete(image, np.s_[:num_reduce], 2)
DeleteFirst(seq, num_reduce) == SubSeq(seq, Min(num_reduce, Len(seq)) + 1, Len(seq))
\* np.concatenate([ndarray_zero, image], 2), ndarray_zero having num_add slices
PrependZeros(seq, num_add) == [k \in 1..num_add |-> 0] \o seq

\* The Z slices reslice_and_align_slice(_mask) returns for an array of Z extent sz.
ResliceSlices(sz, hdr) ==
    LET zoomed == Resampled(ZoomExtent(sz, z_axis_spacing(hdr), 100 * new_spacing))
        r == slices_resliced_(hdr)
    IN  IF r > new_slices THEN DeleteFirst(zoomed, r - new_slices)
        ELSE IF r < new_slices THEN PrependZeros(zoomed, new_slices - r)
        ELSE zoomed

\* reslice_and_align_slice_mask: the same statements on the mask's array
\* (the binarization after the zoom does not move slices).
ResliceSlicesMask(sz, hdr) ==
    LET zoomed == Resampled(ZoomExtent(sz, z_axis_spacing(hdr), 100 * new_spacing))
        r == RoundHalfEven(hdr.dim3 * z_axis_spacing(hdr), 100 * new_spacing)
    IN  IF r > new_slices THEN DeleteFirst(zoomed, r - new_slices)
        ELSE IF r < new_slices THEN PrependZeros(zoomed, new_slices - r)
        ELSE zoomed

\* Z extent returned by reslice_and_align_slice(_mask) for an array of Z extent sz.
ResliceZ(sz, hdr) == Len(ResliceSlices(sz, hdr))

\* The values after reslicing: the mask is binarized before the zero slices
\* are added.
ResliceValues(S, hdr, isMask) ==
    LET zoomed == IF isMask THEN Binarize(Spline(S)) ELSE Spline(S)
    IN  IF slices_resliced_(hdr) < new_slices THEN zoomed \cup Zeros ELSE zoomed

\* Extent of an axis after ndimage.zoom by magnification = x_pixel / 0.5.
UnifiedExtent(n, hdr) == ZoomExtent(n, hdr.pixdim1, 500)

\* (a variant that pads to the nominal 512)
PaddingTo512(extent) == TruncHalf(resize_base - extent)

\* padding_0 = int((513 - image.shape[0]) / 2)
Padding(extent) == TruncHalf(unify_extent - extent)

\* (a variant that pads one row more when the difference is odd)
PaddingMaskCeil(extent) == TruncHalf(unify_extent - extent + 1)
\* unify_mask: padding_0 = int((513 - image.shape[0]) / 2)
PaddingMask(extent) == TruncHalf(unify_extent - extent)

\* (a variant that rounds the half-way extent up)
ResizedExtentHalfUp(n) == (2 * n * image_size + resize_base) \div (2 * resize_base)
\* resize: ndimage.zoom by image_size/512 on both planar axes.
ResizedExtent(n) == ZoomExtent(n, image_size, resize_base)
\* resize_mask: ndimage.zoom by image_size/512 on both planar axes.
ResizedExtentMask(n) == ZoomExtent(n, image_size, resize_base)

PipeInit ==
    /\ kind \in {"image", "mask"}
    /\ \E sx \in Extents, sy \in Extents, sz \in SliceCounts,
          px \in PixdimXY, pz \in PixdimZ :
          /\ shape = <<sx, sy, sz>>
          /\ header = [pixdim1 |-> px, pixdim3 |-> pz,
                       dim1 |-> sx, dim2 |-> sy, dim3 |-> sz]
    /\ image \in (IF kind = "image" THEN RawImage ELSE RawMask)
    /\ pc = IF kind = "image" THEN "density_scaling" ELSE "reslice"
    /\ padding = NoPadding /\ slices = <<>> /\ fdata = image
    /\ VoxelIdle /\ AsmIdle /\ RestIdle

\* image = density_scaling(image)
DensityScaling ==
    /\ pc = "density_scaling"
    /\ image' = density_scaling(image)
    /\ fdata' = ZeroedInPlace(fdata)
    /\ pc' = "reslice"
    /\ UNCHANGED <<kind, header, shape, padding, slices>>
    /\ UNCHANGED <<voxelVars, asmVars, restVars>>

\* image = reslice_and_align_slice(image, header)  (or .._mask)
Reslice ==
    /\ pc = "reslice"
    /\ slices' = (IF kind = "mask" THEN ResliceSlicesMask(shape[3], header)
                  ELSE ResliceSlices(shape[3], header))
    /\ shape' = <<shape[1], shape[2],
                  IF kind = "mask" THEN Len(ResliceSlicesMask(shape[3], header))
                  ELSE ResliceZ(shape[3], header)>>
    /\ image' = ResliceValues(image, header, kind = "mask")
    /\ pc' = "unify"
    /\ UNCHANGED <<kind, header, padding, fdata>>
    /\ UNCHANGED <<voxelVars, asmVars, restVars>>

\* image = unify(image, header)  (or unify_mask): np.zeros with a negative
\* extent raises ValueError and no volume is returned.
Unify ==
    /\ pc = "unify"
    /\ LET e0 == UnifiedExtent(shape[1], header)
           e1 == UnifiedExtent(shape[2], header)
           padding_0 == IF kind = "mask" THEN PaddingMask(e0) ELSE Padding(e0)
           padding_1 == IF kind = "mask" THEN PaddingMask(e1) ELSE Padding(e1)
       IN  IF padding_0 < 0 \/ padding_1 < 0
           THEN /\ pc' = "error"
                /\ UNCHANGED <<shape, image, padding>>
           ELSE /\ padding' = [anterior |-> padding_0, posterior |-> padding_0,
                               right |-> padding_1, left |-> padding_1]
                /\ shape' = <<padding'.anterior + e0 + padding'.posterior,
                              padding'.right + e1 + padding'.left, shape[3]>>
                /\ image' = (IF kind = "mask"
                             THEN Binarize(Spline(image) \cup Zeros)
                             ELSE Clip01(Spline(image) \cup Zeros))
                /\ pc' = "resize"
    /\ UNCHANGED <<kind, header, slices, fdata>>
    /\ UNCHANGED <<voxelVars, asmVars, restVars>>

\* image = resize(image)  (or resize_mask)
Resize ==
    /\ pc = "resize"
    /\ shape' = (IF kind = "mask"
                 THEN <<ResizedExtentMask(shape[1]), ResizedExtentMask(shape[2]), shape[3]>>
                 ELSE <<ResizedExtent(shape[1]), ResizedExtent(shape[2]), shape[3]>>)
    /\ image' = (IF kind = "mask" THEN Binarize(Spline(image)) ELSE Clip01(Spline(image)))
    /\ pc' = "rotate"
    /\ UNCHANGED <<kind, header, padding, slices, fdata>>
    /\ UNCHANGED <<voxelVars, asmVars, restVars>>

\* The values of ndimage.rotate(image, 90, reshape=False).  The quarter turn
\* is about the centre ((shape[0]-1)/2, (shape[1]-1)/2).  With equal planar
\* extents it maps the voxel grid onto itself.  With extents that differ by an
\* odd number the two centre coordinates differ by half a voxel, so every
\* output voxel is interpolated half way between input voxels, or lies
\* outside the input and is 0.
Rotate90(S, shp) ==
    IF shp[1] = shp[2] THEN Noisy(S)
    ELSE IF (shp[1] - shp[2]) % 2 = 0 THEN Noisy(S) \cup Zeros
    ELSE Spline(S) \cup Zeros

\* image = ndimage.rotate(image, 90, reshape=False); return image.round(10)
Rotate ==
    /\ pc = "rotate"
    /\ image' = Round10(Rotate90(image, shape))
    /\ pc' = "done"
    /\ UNCHANGED <<kind, header, shape, padding, slices, fdata>>
    /\ UNCHANGED <<voxelVars, asmVars, restVars>>

PipeNext == DensityScaling \/ Reslice \/ Unify \/ Resize \/ Rotate

SpecPipe == PipeInit /\ [][PipeNext]_vars

\* The planar extents unify's zoom gives the file's native extents.
E0 == UnifiedExtent(header.dim1, header)
E1 == UnifiedExtent(header.dim2, header)
InRange01(S) == \A r \in S : 0 <= r[1] /\ r[2] <= One
IsBinary(S) == S \subseteq {<<0, 0>>, <<One, One>>}

\* C1: whatever the native axial spacing and slice count (header dim[3] being
\* the array's Z length), the volume reslice_and_align_slice(_mask) returns has
\* exactly new_slices = 80 slices along Z.
C1_SliceCount ==
    pc \in {"unify", "resize", "rotate", "done", "error"} => shape[3] = new_slices
\* reslice has just returned 80 slices for a file whose resampled slice count
\* is a rounding tie (159 slices at 1 mm spacing: 159 * 1 / 2 = 79.5).
C1_Witness ==
    /\ pc = "unify"
    /\ header.dim3 = 159 /\ z_axis_spacing(header) = 100
    /\ shape[3] = new_slices

\* C2 as stated: whenever the resampled planar extents are at most 513, unify
\* returns extent exactly 513 on both planar axes, with the same number of
\* zero rows before and after the content.
C2_Original ==
    (pc = "resize" /\ E0 <= unify_extent /\ E1 <= unify_extent) =>
        /\ shape[1] = unify_extent /\ shape[2] = unify_extent
        /\ padding.anterior = padding.posterior /\ padding.right = padding.left
\* C2 amended: whenever the resampled planar extents are at most 513, unify
\* adds the same number floor((513 - e) / 2) of zero rows before and after the
\* content on each axis, so the returned extent is 513 when e is odd and 512
\* when e is even.
C2_Amended ==
    (pc = "resize" /\ E0 <= unify_extent /\ E1 <= unify_extent) =>
        /\ shape[1] = (IF E0 % 2 = 1 THEN 513 ELSE 512)
        /\ shape[2] = (IF E1 % 2 = 1 THEN 513 ELSE 512)
        /\ padding.anterior = padding.posterior /\ padding.right = padding.left
        /\ shape[1] = E0 + padding.anterior + padding.posterior
        /\ shape[2] = E1 + padding.right + padding.left
\* unify has returned for an even extent (padded to 512) beside an odd one
\* (padded to 513).
C2_Witness ==
    /\ pc = "resize"
    /\ E0 % 2 = 0 /\ E0 < unify_extent /\ shape[1] = 512 /\ padding.anterior > 0
    /\ E1 % 2 = 1 /\ E1 < unify_extent /\ shape[2] = 513 /\ padding.left > 0

\* C3: for every input volume the array get_processed_images(_mask) returns
\* has shape exactly (256, 256, 80).
C3_Shape ==
    pc = "done" => shape = <<image_size, image_size, new_slices>>

\* C4: every voxel get_processed_images returns lies in [0, 1] and every
\* voxel get_processed_images_mask returns is exactly 0 or 1.
C4_Range ==
    pc = "done" => IF kind = "mask" THEN IsBinary(image) ELSE InRange01(image)

\* What C15 says of one sample v (in units of 1 HU / One).
ScaledSample(v) == IF 0 <= v /\ v <= 100 * One THEN v \div 100 ELSE 0
IsSamples(S) == \A r \in S : r[1] = r[2]

\* C15: density_scaling maps every sample v with 0 <= v <= 100 to v / 100 and
\* every sample below 0 or above 100 to 0 (zeroed, not clamped to 1), so its
\* output lies in [0, 1] for every input.
C15_DensityScaling ==
    [][pc = "density_scaling" =>
          /\ InRange01(image')
          /\ IsSamples(image) =>
                image' = {<<ScaledSample(r[1]), ScaledSample(r[1])>> : r \in image}]_vars
\* density_scaling has returned for the volume holding samples of 100 and
\* 105 HU: the first became 1, the second 0.
C15_Witness ==
    /\ kind = "image" /\ pc = "reslice"
    /\ image = {<<One, One>>, <<0, 0>>}

\* C16: with r = round(native slice count * spacing factor): if r > 80 the
\* first r - 80 slices of the resampled volume are removed and the rest keep
\* their order; if r < 80 exactly 80 - r all-zero slices come before the
\* resampled slices, which follow unchanged; if r = 80 the resampled volume
\* is returned as it is.
C16_DropPrepend ==
    pc \in {"unify", "resize", "rotate", "done", "error"} =>
        LET r == slices_resliced_(header)
            n == ZoomExtent(header.dim3, z_axis_spacing(header), 100 * new_spacing)
        IN  IF r > new_slices
            THEN slices = [k \in 1..(n - (r - new_slices)) |-> k + (r - new_slices)]
            ELSE IF r < new_slices
            THEN slices = [k \in 1..(new_slices - r + n) |->
                             IF k <= new_slices - r THEN 0 ELSE k - (new_slices - r)]
            ELSE slices = [k \in 1..n |-> k]
\* reslice has returned for a file of 200 slices at 1 mm: the resampled
\* volume had 100 slices and the first 20 were removed
C16_Witness ==
    /\ pc = "unify"
    /\ header.dim3 = 200 /\ z_axis_spacing(header) = 100
    /\ Len(slices) = new_slices /\ slices[1] = 21 /\ slices[new_slices] = 100

\* C17: if a resampled planar extent exceeds 513, unify / unify_mask fail and
\* return no volume; no volume with a planar extent above 513 is returned.
C17_NegativePad ==
    (pc \in {"resize", "rotate", "done"}) =>
        /\ E0 <= unify_extent /\ E1 <= unify_extent
        /\ (pc = "resize" => shape[1] <= unify_extent /\ shape[2] <= unify_extent)

\* C20: clipping to [0, 1] twice gives what clipping once gives, and the
\* 0.2-threshold binarization twice gives what it gives once, for every array.
C20_Idempotent ==
    /\ Clip01(Clip01(image)) = Clip01(image)
    /\ Binarize(Binarize(image)) = Binarize(image)
\* unify has clipped a resampled image whose spline overshoot went below 0
\* and above 1; the array is not binary, and binarizing it would change it
C20_Witness ==
    /\ kind = "image" /\ pc = "resize"
    /\ Lo(image) = 0 /\ Hi(image) = One
    /\ Clip01(image) = image
    /\ Binarize(image) # image /\ Binarize(Binarize(image)) = Binarize(image)

\* C21: the array read_image_header returned is not modified by the
\* pipeline: after density_scaling and every later stage it holds the values
\* it held when it was loaded.
C21_RawUnmodified == [][fdata' = fdata]_vars

\* C26: resize and resize_mask scale each planar axis by 256/512 and return
\* planar extent exactly 256 for an input extent of 512 and for an input
\* extent of 513 (256.5 rounds to 256); the Z extent is unchanged.
C26_Resize ==
    [][pc = "resize" =>
          /\ shape[1] \in {512, 513} => shape'[1] = 256
          /\ shape[2] \in {512, 513} => shape'[2] = 256
          /\ shape'[3] = shape[3]]_vars
\* resize_mask has returned 256 x 256 x 80 for a mask that unify_mask had
\* padded to 513 rows and 512 columns
C26_Witness ==
    /\ kind = "mask" /\ pc = "rotate"
    /\ E0 + padding.anterior + padding.posterior = 513
    /\ E1 + padding.right + padding.left = 512
    /\ shape = <<256, 256, 80>>

\* What the image pipeline makes of a file with this header: the slices
\* kept, the planar padding, and the shape after each stage.
ImagePadding(hdr) ==
    [anterior |-> Padding(UnifiedExtent(hdr.dim1, hdr)),
     posterior |-> Padding(UnifiedExtent(hdr.dim1, hdr)),
     right |-> Padding(UnifiedExtent(hdr.dim2, hdr)),
     left |-> Padding(UnifiedExtent(hdr.dim2, hdr))]
ImageFails(hdr) == ImagePadding(hdr).anterior < 0 \/ ImagePadding(hdr).right < 0
ImageShape(stage, hdr) ==
    LET native == <<hdr.dim1, hdr.dim2, hdr.dim3>>
        resliced == <<hdr.dim1, hdr.dim2, ResliceZ(hdr.dim3, hdr)>>
        unified == <<UnifiedExtent(hdr.dim1, hdr) + 2 * ImagePadding(hdr).anterior,
                     UnifiedExtent(hdr.dim2, hdr) + 2 * ImagePadding(hdr).right,
                     resliced[3]>>
        resized == <<ResizedExtent(unified[1]), ResizedExtent(unified[2]), unified[3]>>
    IN  CASE stage = "reslice" -> native
          [] stage \in {"unify", "error"} -> resliced
          [] stage = "resize" -> unified
          [] OTHER -> resized

\* C29: for a mask file with the same header and array shape as an image
\* file, the mask pipeline drops or prepends the same slices, applies the
\* same planar padding and has the same shape after every stage as the image
\* pipeline (and fails where it fails), so voxel (x, y, z) of the processed
\* mask is the location of voxel (x, y, z) of the processed image.
C29_SameGeometry ==
    kind = "mask" =>
        /\ shape = ImageShape(pc, header)
        /\ pc # "reslice" => slices = ResliceSlices(header.dim3, header)
        /\ pc \in {"resize", "rotate", "done"} =>
              padding = ImagePadding(header) /\ ~ImageFails(header)
        /\ pc = "error" => ImageFails(header)
\* get_processed_images_mask has returned for a mask that got zero slices
\* prepended and zero rows and columns around it
C29_Witness ==
    /\ kind = "mask" /\ pc = "done"
    /\ slices[1] = 0 /\ slices[new_slices] > 0
    /\ padding.anterior > 0 /\ padding.right > 0
    /\ shape = <<image_size, image_size, new_slices>>

\* --------------------------------------------- extract_hematoma, per voxel

\* float32 keeps a 24-bit significand; the model keeps MantBits bits and
\* counts values in units of 2^-FracBits, so FOne is 1.0.
MantBits == 3
FracBits == MantBits + 2

RECURSIVE Pow2(_)
Pow2(n) == IF n = 0 THEN 1 ELSE 2 * Pow2(n - 1)
FOne == Pow2(FracBits)

\* The position of the leading bit of x > 0.
RECURSIVE TopBit(_)
TopBit(x) == IF x <= 1 THEN 0 ELSE 1 + TopBit(x \div 2)

\* The nearest value with a MantBits-bit significand, ties to even: the
\* result of one float32 operation whose exact result is x.
Fl(x) ==
    LET a == IF x < 0 THEN -x ELSE x
        ulp == IF TopBit(a) >= MantBits THEN Pow2(TopBit(a) - MantBits + 1) ELSE 1
        m == RoundHalfEven(a, ulp) * ulp
    IN  IF x < 0 THEN -m ELSE m

\* hematoma = original - 1 + mask; hematoma[hematoma <= 0] = 0
ExtractVoxel(o, m) ==
    LET h == Fl(Fl(o - FOne) + m)
    IN  IF h <= 0 THEN 0 ELSE h

VoxelInit ==
    /\ vpc = "astype"
    /\ original \in 0..FOne
    /\ mask \in {0, FOne}
    /\ hematoma = 0
    /\ PipeIdle /\ AsmIdle /\ RestIdle

\* original = original.astype('float32'); mask = mask.astype('float32')
AsType ==
    /\ vpc = "astype"
    /\ original' = Fl(original)
    /\ mask' = Fl(mask)
    /\ vpc' = "extract"
    /\ UNCHANGED <<hematoma, pipeVars, asmVars, restVars>>

\* hematoma = original - 1 + mask; hematoma[hematoma <= 0] = 0
Extract ==
    /\ vpc = "extract"
    /\ hematoma' = ExtractVoxel(original, mask)
    /\ vpc' = "extracted"
    /\ UNCHANGED <<original, mask, pipeVars, asmVars, restVars>>

VoxelNext == AsType \/ Extract

SpecVoxel == VoxelInit /\ [][VoxelNext]_vars

\* C5: the result of extract_hematoma is 0 at every voxel where the mask is 0
\* and equals the original image value at every voxel where the mask is 1.
C5_Extract ==
    vpc = "extracted" =>
        /\ mask = 0 => hematoma = 0
        /\ mask = FOne => hematoma = original

\* ------------------------------------------------------ dataset assembly

\* Largest number of files in the expansion train+validation directory.
MaxCases == 4
NoExpansionCounts == {1, 2}
TestCounts == {0, 1, 2}

\* angles = [30]
notebook_angles == <<30>>

Dir == Class \X Role

\* The processed volume of the k-th file of a directory's sorted listing, and
\* the k-th row of its csv table.
Image(c, r, k) == [class |-> c, role |-> r, file |-> k, rot |-> <<>>, flip |-> FALSE]
Row(c, r, k) == [class |-> c, role |-> r, row |-> k]
Images(c, r) == [k \in 1..files[<<c, r>>] |-> Image(c, r, k)]
Rows(c, r) == [k \in 1..rows[<<c, r>>] |-> Row(c, r, k)]

\* ndimage.rotate(x, angle, reshape=False), clipped to [0, 1]
Rotated(x, angle) == [x EXCEPT !.rot = Append(@, angle)]
\* np.flip(x, 2) on the stacked array mirrors each volume along Y
Flipped(x) == [x EXCEPT !.flip = ~@]

\* The orders a shuffle of n records can leave them in.
Orders(n) ==
    {p \in [1..n -> 1..n] : \A a, b \in 1..n : a # b => p[a] # p[b]}
\* The orders drawn for a pool of n records: every order of a pool of up to
\* MaxCases records; the cyclic shifts and the reversal of a larger pool.
Drawn(n) ==
    IF n <= MaxCases THEN Orders(n)
    ELSE {[k \in 1..n |-> ((k + s - 1) % n) + 1] : s \in 0..(n - 1)}
           \cup {[k \in 1..n |-> n + 1 - k]}
\* np.random.shuffle(x) leaves x in the order p of NumPy's global generator.
Shuffled(x, p) == [k \in 1..Len(x) |-> x[p[k]]]

\* int(len(pool) * 0.7).  (The double product n * 0.7 truncates to
\* floor(7n / 10) for every n below 90, which covers the pools drawn here.)
SplitIndex(n) == (7 * n) \div 10

\* (a variant whose train slice runs one record into the validation slice)
TrainSliceOverlap(pool) == SubSeq(pool, 1, Min(Len(pool), SplitIndex(Len(pool)) + 1))
\* pool[:int(len(pool)*0.7)]
TrainSlice(pool) == SubSeq(pool, 1, SplitIndex(Len(pool)))
\* (a variant that starts the validation slice one record late)
ValSliceLate(pool) == SubSeq(pool, SplitIndex(Len(pool)) + 2, Len(pool))
\* pool[int(len(pool)*0.7):]
ValSlice(pool) == SubSeq(pool, SplitIndex(Len(pool)) + 1, Len(pool))

\* (a variant that rotates the record appended last)
AppendRotationOfLast(arr, i, angle) == Append(arr, Rotated(arr[Len(arr)], angle))
\* np.concatenate((arr, rotation), axis=0), rotation being arr[i] rotated
AppendRotation(arr, i, angle) == Append(arr, Rotated(arr[i + 1], angle))
\* (a variant that repeats the last row instead of row i)
AppendLastRow(tab, i) == Append(tab, tab[Len(tab)])
\* np.concatenate((tab, np.expand_dims(tab[i], axis=0)), axis=0)
AppendRow(tab, i) == Append(tab, tab[i + 1])
\* (a variant that keeps only the mirrored copies)
FlipOnly(arr) == [k \in 1..Len(arr) |-> Flipped(arr[k])]
\* np.concatenate((arr, np.flip(arr, 2)), axis=0)
ConcatFlip(arr) == arr \o [k \in 1..Len(arr) |-> Flipped(arr[k])]
\* np.array([v for i in range(len(arr))])
Labels(v, arr) == [k \in 1..Len(arr) |-> v]

\* [[tab[i], img[i]] for i in range(len(tab))]
Paired(tab, img) == [k \in 1..Len(tab) |-> <<tab[k], img[k]>>]

\* The directories and tables found: the csv tables of "mm" have a row per
\* file, except that one table may be a row short or a row long.
AsmInputs ==
    /\ nb \in {"cnn", "mm"}
    /\ \E ne \in 1..MaxCases, nn \in NoExpansionCounts, te \in TestCounts, tn \in TestCounts :
          files = [d \in Dir |->
                     IF d = <<"expansion", "train_val">> THEN ne
                     ELSE IF d = <<"no_expansion", "train_val">> THEN nn
                     ELSE IF d = <<"expansion", "test">> THEN te ELSE tn]
    /\ IF nb = "cnn" THEN rows = [d \in Dir |-> 0]
       ELSE \/ rows = files
            \/ \E d \in Dir, delta \in {0 - 1, 1} :
                  /\ files[d] + delta >= 0
                  /\ rows = [files EXCEPT ![d] = @ + delta]
    /\ \/ failing = <<>>
       \/ failing \in Dir /\ files[failing] > 0
    /\ angles = notebook_angles

AsmInit ==
    /\ AsmInputs
    /\ cell = "create"
    /\ run = 1 /\ first = <<>>
    /\ Fresh
    /\ PipeIdle /\ VoxelIdle /\ RestIdle

\* The order in which the cell's statements read the directories.
DirOrder == <<<<"expansion", "train_val">>, <<"no_expansion", "train_val">>,
              <<"expansion", "test">>, <<"no_expansion", "test">>>>
Position(d) == CHOOSE k \in 1..Len(DirOrder) : DirOrder[k] = d

\* (a variant that keeps the volumes processed before the failing file)
CreatedPartial(c, r) ==
    IF failing = <<>> \/ Position(<<c, r>>) < Position(failing) THEN Images(c, r)
    ELSE IF failing = <<c, r>> THEN SubSeq(Images(c, r), 1, files[<<c, r>>] - 1)
    ELSE <<>>
\* np.array([get_processed_images(j) for j in tqdm(list)]): the exception a
\* file raises leaves the list comprehension and the cell, so the statement
\* assigns nothing and the statements after it do not run.
Created(c, r) ==
    IF failing = <<>> \/ Position(<<c, r>>) < Position(failing) THEN Images(c, r)
    ELSE <<>>

\* "Create data arrays" (and, in "mm", the DataFrame-to-array cell, which
\* has run before it)
CreateArrays ==
    /\ cell = "create"
    /\ image_test' = [c \in Class |-> Created(c, "test")]
    /\ IF nb = "cnn"
       THEN /\ train_val' = [c \in Class |-> Created(c, "train_val")]
            /\ cell' = IF failing = <<>> THEN "shuffle" ELSE "error"
            /\ UNCHANGED <<tabular_train_val, image_train_val, tabular_test>>
       ELSE /\ image_train_val' = [c \in Class |-> Created(c, "train_val")]
            /\ tabular_train_val' = [c \in Class |-> Rows(c, "train_val")]
            /\ tabular_test' = [c \in Class |-> Rows(c, "test")]
            /\ cell' = IF failing = <<>> THEN "pair" ELSE "error"
            /\ UNCHANGED train_val
    /\ UNCHANGED <<inputVars, random_seed, train, val, dividedVars, loop,
                   labelVars, outVars, run, first, pipeVars, voxelVars, restVars>>

\* "Store arrays of clinical variables and CT images in the same array":
\* img[i] raises IndexError when the table has more rows than there are images.
CanPair(c) == Len(tabular_train_val[c]) <= Len(image_train_val[c])
Pair ==
    /\ cell = "pair"
    /\ train_val' =
          [c \in Class |->
             IF CanPair("expansion") /\ CanPair(c)
             THEN Paired(tabular_train_val[c], image_train_val[c]) ELSE <<>>]
    /\ cell' = IF \A c \in Class : CanPair(c) THEN "shuffle" ELSE "error"
    /\ UNCHANGED <<inputVars, random_seed, arrayVars, train, val, dividedVars,
                   loop, labelVars, outVars, run, first, pipeVars, voxelVars, restVars>>

\* "Shuffle the data in the arrays": random.seed(0) ("cnn") or
\* random.seed(42) ("mm") seeds Python's random module; np.random.shuffle
\* draws from NumPy's global generator, which no cell seeds.
Seed == IF nb = "cnn" THEN 0 ELSE 42
Shuffle ==
    /\ cell = "shuffle"
    /\ random_seed' = Seed
    /\ \E p \in Drawn(Len(train_val["expansion"])),
          q \in Drawn(Len(train_val["no_expansion"])) :
          train_val' = [c \in Class |->
                          Shuffled(train_val[c], IF c = "expansion" THEN p ELSE q)]
    /\ cell' = "split"
    /\ UNCHANGED <<inputVars, arrayVars, train, val, dividedVars, loop,
                   labelVars, outVars, run, first, pipeVars, voxelVars, restVars>>

\* "70% were assigned to the training set and the rest to the validation set"
Split ==
    /\ cell = "split"
    /\ train' = [c \in Class |-> TrainSlice(train_val[c])]
    /\ val' = [c \in Class |-> ValSlice(train_val[c])]
    /\ cell' = IF nb = "cnn" THEN "rotate" ELSE "divide"
    /\ loop' = [j |-> 0, i |-> 0, n |-> None]
    /\ UNCHANGED <<inputVars, random_seed, arrayVars, train_val, dividedVars,
                   labelVars, outVars, run, first, pipeVars, voxelVars, restVars>>

\* "Divide the array into the arrays for clinical variables and CT images"
Divide ==
    /\ cell = "divide"
    /\ tabular_train' = [c \in Class |-> [k \in 1..Len(train[c]) |-> train[c][k][1]]]
    /\ tabular_val' = [c \in Class |-> [k \in 1..Len(val[c]) |-> val[c][k][1]]]
    /\ image_train' = [c \in Class |-> [k \in 1..Len(train[c]) |-> train[c][k][2]]]
    /\ image_val' = [c \in Class |-> [k \in 1..Len(val[c]) |-> val[c][k][2]]]
    /\ cell' = "rotate"
    /\ UNCHANGED <<inputVars, random_seed, arrayVars, splitVars, loop,
                   labelVars, outVars, run, first, pipeVars, voxelVars, restVars>>

\* The array the augmentation cells extend: expansion_train ("cnn") or
\* image_expansion_train ("mm").
ExpansionTrain == IF nb = "cnn" THEN train["expansion"] ELSE image_train["expansion"]

\* "Data augmentation by rotating images", one step of the loops at a time.
\* for j in range(len(angles)): the next angle, or the end of the cell;
\* range(len(expansion_train)) is evaluated once, when the inner loop starts.
RotateEnter ==
    /\ cell = "rotate" /\ loop.n = None
    /\ IF loop.j < Len(angles)
       THEN /\ loop' = [j |-> loop.j, i |-> 0, n |-> Len(ExpansionTrain)]
            /\ cell' = cell
       ELSE /\ cell' = "flip"
            /\ loop' = loop
    /\ UNCHANGED <<inputVars, random_seed, arrayVars, splitVars, dividedVars,
                   labelVars, outVars, run, first, pipeVars, voxelVars, restVars>>

\* (a variant whose loop bound follows the growing array)
RotateStepLiveRange ==
    /\ cell = "rotate" /\ loop.n # None /\ loop.i < loop.n
    /\ IF nb = "cnn"
       THEN /\ train' = [train EXCEPT !["expansion"] =
                            AppendRotation(@, loop.i, angles[loop.j + 1])]
            /\ UNCHANGED dividedVars
       ELSE /\ image_train' = [image_train EXCEPT !["expansion"] =
                                  AppendRotation(@, loop.i, angles[loop.j + 1])]
            /\ tabular_train' = [tabular_train EXCEPT !["expansion"] =
                                    AppendRow(@, loop.i)]
            /\ UNCHANGED <<train, tabular_val, image_val>>
    /\ loop' = [loop EXCEPT !.i = @ + 1, !.n = @ + 1]
    /\ UNCHANGED <<inputVars, cell, random_seed, arrayVars, train_val, val,
                   labelVars, outVars, run, first, pipeVars, voxelVars, restVars>>

\* the body of the inner loop for index i
RotateStep ==
    /\ cell = "rotate" /\ loop.n # None /\ loop.i < loop.n
    /\ IF nb = "cnn"
       THEN /\ train' = [train EXCEPT !["expansion"] =
                            AppendRotation(@, loop.i, angles[loop.j + 1])]
            /\ UNCHANGED dividedVars
       ELSE /\ image_train' = [image_train EXCEPT !["expansion"] =
                                  AppendRotation(@, loop.i, angles[loop.j + 1])]
            /\ tabular_train' = [tabular_train EXCEPT !["expansion"] =
                                    AppendRow(@, loop.i)]
            /\ UNCHANGED <<train, tabular_val, image_val>>
    /\ loop' = [loop EXCEPT !.i = @ + 1]
    /\ UNCHANGED <<inputVars, cell, random_seed, arrayVars, train_val, val,
                   labelVars, outVars, run, first, pipeVars, voxelVars, restVars>>

\* the inner loop's range is exhausted
RotateLeave ==
    /\ cell = "rotate" /\ loop.n # None /\ loop.i >= loop.n
    /\ loop' = [j |-> loop.j + 1, i |-> 0, n |-> None]
    /\ UNCHANGED <<inputVars, cell, random_seed, arrayVars, splitVars, dividedVars,
                   labelVars, outVars, run, first, pipeVars, voxelVars, restVars>>

\* (a variant that mirrors the train partitions of both classes)
FlipBothClasses ==
    /\ cell = "flip"
    /\ IF nb = "cnn"
       THEN /\ train' = [c \in Class |-> ConcatFlip(train[c])]
            /\ UNCHANGED dividedVars
       ELSE /\ image_train' = [c \in Class |-> ConcatFlip(image_train[c])]
            /\ tabular_train' = [c \in Class |-> tabular_train[c] \o tabular_train[c]]
            /\ UNCHANGED <<train, tabular_val, image_val>>
    /\ cell' = "label"
    /\ UNCHANGED <<inputVars, random_seed, arrayVars, train_val, val, loop,
                   labelVars, outVars, run, first, pipeVars, voxelVars, restVars>>

\* "Data augmentation by flipping images"
Flip ==
    /\ cell = "flip"
    /\ IF nb = "cnn"
       THEN /\ train' = [train EXCEPT !["expansion"] = ConcatFlip(@)]
            /\ UNCHANGED dividedVars
       ELSE /\ image_train' = [image_train EXCEPT !["expansion"] = ConcatFlip(@)]
            /\ tabular_train' = [tabular_train EXCEPT !["expansion"] = @ \o @]
            /\ UNCHANGED <<train, tabular_val, image_val>>
    /\ cell' = "label"
    /\ UNCHANGED <<inputVars, random_seed, arrayVars, train_val, val, loop,
                   labelVars, outVars, run, first, pipeVars, voxelVars, restVars>>

\* "Labeling": the lengths are those of the image arrays in "cnn" and of
\* the tabular arrays in "mm".
Label ==
    /\ cell = "label"
    /\ LET v(c) == IF c = "expansion" THEN 1 ELSE 0
       IN  IF nb = "cnn"
           THEN /\ label_train' = [c \in Class |-> Labels(v(c), train[c])]
                /\ label_val' = [c \in Class |-> Labels(v(c), val[c])]
                /\ label_test' = [c \in Class |-> Labels(v(c), image_test[c])]
           ELSE /\ label_train' = [c \in Class |-> Labels(v(c), tabular_train[c])]
                /\ label_val' = [c \in Class |-> Labels(v(c), tabular_val[c])]
                /\ label_test' = [c \in Class |-> Labels(v(c), tabular_test[c])]
    /\ cell' = "concatenate"
    /\ UNCHANGED <<inputVars, random_seed, arrayVars, splitVars, dividedVars,
                   loop, outVars, run, first, pipeVars, voxelVars, restVars>>

\* (a variant that puts the no-expansion records first)
NoExpansionFirst(a) == a["no_expansion"] \o a["expansion"]
\* np.concatenate((a_expansion, a_no_expansion), axis=0)
BothClasses(a) == a["expansion"] \o a["no_expansion"]

\* "Concatenate expansion and no expansion arrays"
Concatenate ==
    /\ cell = "concatenate"
    /\ IF nb = "cnn"
       THEN /\ x_train' = BothClasses(train)
            /\ x_val' = BothClasses(val)
            /\ UNCHANGED <<tabular_x_train, tabular_x_val, tabular_x_test>>
       ELSE /\ tabular_x_train' = BothClasses(tabular_train)
            /\ tabular_x_val' = BothClasses(tabular_val)
            /\ x_train' = BothClasses(image_train)
            /\ x_val' = BothClasses(image_val)
            /\ tabular_x_test' = BothClasses(tabular_test)
    /\ x_test' = BothClasses(image_test)
    /\ y_train' = BothClasses(label_train)
    /\ y_val' = BothClasses(label_val)
    /\ y_test' = BothClasses(label_test)
    /\ cell' = "expand_dims"
    /\ UNCHANGED <<inputVars, random_seed, arrayVars, splitVars, dividedVars,
                   loop, labelVars, run, first, pipeVars, voxelVars, restVars>>

\* "Add a dimension to arrays": tf.expand_dims(x, axis=4) keeps the records
\* and their order; the tensors are then handed to the model.
ExpandDims ==
    /\ cell = "expand_dims"
    /\ cell' = "done"
    /\ UNCHANGED <<inputVars, random_seed, arrayVars, splitVars, dividedVars,
                   loop, labelVars, outVars, run, first, pipeVars, voxelVars, restVars>>

\* The cells after the data arrays exist.
Cells ==
    \/ Pair \/ Shuffle \/ Split \/ Divide
    \/ RotateEnter \/ RotateStep \/ RotateLeave
    \/ Flip \/ Label \/ Concatenate \/ ExpandDims

Next == CreateArrays \/ Cells

Spec == AsmInit /\ [][Next]_vars

\* ------------------------------------- the cells with a list of m angles

\* Longest angle list and largest expansion pool drawn for it.
MaxAngles == 3
AngleCases == 3

\* The cells with angles = [30, 60, ..] of length 0..MaxAngles in place of
\* [30], on directories and tables that agree and hold no unreadable file.
AnglesInit ==
    /\ nb \in {"cnn", "mm"}
    /\ \E ne \in 1..AngleCases, nn \in NoExpansionCounts :
          files = [d \in Dir |->
                     IF d = <<"expansion", "train_val">> THEN ne
                     ELSE IF d = <<"no_expansion", "train_val">> THEN nn ELSE 1]
    /\ rows = IF nb = "cnn" THEN [d \in Dir |-> 0] ELSE files
    /\ failing = <<>>
    /\ \E m \in 0..MaxAngles : angles = [k \in 1..m |-> 30 * k]
    /\ cell = "create" /\ run = 1 /\ first = <<>>
    /\ Fresh
    /\ PipeIdle /\ VoxelIdle /\ RestIdle

SpecAngles == AnglesInit /\ [][Next]_vars

\* The kernel runs a cell's statements one after another until the cell ends
\* or raises: a step that can be taken is taken.
SpecAnglesFair == AnglesInit /\ [][Next]_vars /\ WF_vars(Next)

\* ------------------------------------------------- the notebook run twice

\* Largest expansion pool of the repeated runs.
RepeatCases == 3

\* What a run hands to the model.
Emitted == <<x_train, x_val, x_test, tabular_x_train, tabular_x_val,
             tabular_x_test, y_train, y_val, y_test>>

RepeatInit ==
    /\ AsmInit
    /\ files[<<"expansion", "train_val">>] <= RepeatCases
    /\ files[<<"expansion", "test">>] = 1 /\ files[<<"no_expansion", "test">>] = 1
    /\ nb = "mm" => rows = files
    /\ failing = <<>>

\* The kernel is restarted and every cell is run again on the same
\* directories and tables.
RunAgain ==
    /\ cell = "done" /\ run = 1
    /\ first' = Emitted
    /\ run' = 2
    /\ cell' = "create"
    /\ random_seed' = None
    /\ tabular_train_val' = NoArrays /\ image_train_val' = NoArrays
    /\ tabular_test' = NoArrays /\ image_test' = NoArrays
    /\ train_val' = NoArrays /\ train' = NoArrays /\ val' = NoArrays
    /\ tabular_train' = NoArrays /\ image_train' = NoArrays
    /\ tabular_val' = NoArrays /\ image_val' = NoArrays
    /\ loop' = NoLoop
    /\ label_train' = NoArrays /\ label_val' = NoArrays /\ label_test' = NoArrays
    /\ x_train' = <<>> /\ x_val' = <<>> /\ x_test' = <<>>
    /\ tabular_x_train' = <<>> /\ tabular_x_val' = <<>> /\ tabular_x_test' = <<>>
    /\ y_train' = <<>> /\ y_val' = <<>> /\ y_test' = <<>>
    /\ UNCHANGED <<inputVars, pipeVars, voxelVars, restVars>>

RepeatNext == Next \/ RunAgain

SpecRepeat == RepeatInit /\ [][RepeatNext]_vars

\* C6: with the same seed and the same input file ordering two runs of the
\* assembly give identical train/validation membership and identical record
\* order in every emitted tensor.
C6_Deterministic == (run = 2 /\ cell = "done") => Emitted = first

\* ----------------------------------------------------- assembly claims

\* A tabular row and an image that come from the same case: the k-th row of
\* a table and the k-th file of the matching directory.
SameCase(t, x) == t.class = x.class /\ t.role = x.role /\ t.row = x.file
IsRow(t) == t = Row(t.class, t.role, t.row)
InLockStep(tab, img) ==
    /\ Len(tab) = Len(img)
    /\ \A k \in 1..Len(tab) : SameCase(tab[k], img[k]) /\ IsRow(tab[k])

\* C7: in the multimodal assembly the tabular row at index i of the final
\* train and validation tensors is the unchanged row of the case the image
\* at index i was taken or derived from; divide, rotation and flip keep the
\* per-class arrays in lock-step too.
C7_LockStep ==
    nb = "mm" =>
        /\ cell \in {"rotate", "flip", "label", "concatenate", "expand_dims", "done"} =>
              \A c \in Class : /\ InLockStep(tabular_train[c], image_train[c])
                               /\ InLockStep(tabular_val[c], image_val[c])
        /\ cell \in {"expand_dims", "done"} =>
              /\ InLockStep(tabular_x_train, x_train)
              /\ InLockStep(tabular_x_val, x_val)
\* the multimodal tensors are emitted, the train tensor holding a rotated
\* and mirrored copy of a case that the shuffle moved
C7_Witness ==
    /\ nb = "mm" /\ cell = "done"
    /\ \E k \in 1..Len(x_train) :
          /\ x_train[k].rot = <<30>> /\ x_train[k].flip
          /\ x_train[k].file # x_train[1].file
          /\ tabular_x_train[k].row = x_train[k].file
    /\ x_train[1].file # 1
    /\ Len(x_val) > 0

\* The size of the expansion train partition before augmentation.
K == Len(train_val["expansion"]) - Len(val["expansion"])

\* C8: with one rotation angle and one flip the expansion train partition of
\* K records has 2K records after the rotation pass (the K rotated copies
\* appended) and exactly 4K after the flip.
C8_FourK ==
    /\ cell = "flip" =>
          /\ Len(ExpansionTrain) = 2 * K
          /\ \A k \in 1..K : ExpansionTrain[K + k] = Rotated(ExpansionTrain[k], 30)
    /\ cell \in {"label", "concatenate", "expand_dims", "done"} =>
          /\ Len(ExpansionTrain) = 4 * K
          /\ \A k \in 1..(2 * K) : ExpansionTrain[2 * K + k] = Flipped(ExpansionTrain[k])
          /\ nb = "mm" => Len(tabular_train["expansion"]) = 4 * K
\* the flip cell has run on a partition that had two records
C8_Witness == cell = "label" /\ K = 2 /\ Len(ExpansionTrain) = 8

\* Pass p of the rotation loops, n0 records before it, has appended its
\* first done copies.
PassAppended(p, n0, done) ==
    \A i \in 1..done : ExpansionTrain[n0 + i] = Rotated(ExpansionTrain[i], angles[p])

\* C23: with m angles and an expansion train partition of K records, each
\* angle pass appends one rotated copy of every record present when the pass
\* started (element n+i is the rotation of element i, n being the count at
\* the start of the pass), so each angle doubles the count and the partition
\* has 2^m * K records after the rotation cell.
C23_Doubling ==
    /\ (cell = "rotate" /\ loop.n # None) =>
          /\ loop.n = Pow2(loop.j) * K
          /\ Len(ExpansionTrain) = loop.n + loop.i
          /\ PassAppended(loop.j + 1, loop.n, loop.i)
    /\ (cell = "rotate" /\ loop.n = None) =>
          /\ Len(ExpansionTrain) = Pow2(loop.j) * K
          /\ \A p \in 1..loop.j : PassAppended(p, Pow2(p - 1) * K, Pow2(p - 1) * K)
    /\ cell = "flip" =>
          /\ Len(ExpansionTrain) = Pow2(Len(angles)) * K
          /\ \A p \in 1..Len(angles) : PassAppended(p, Pow2(p - 1) * K, Pow2(p - 1) * K)
          /\ nb = "mm" => Len(tabular_train["expansion"]) = Pow2(Len(angles)) * K
\* the rotation cell has ended after two passes over a partition of two
\* records, the last record being the 60-degree copy of a 30-degree copy
C23_Witness ==
    /\ cell = "flip" /\ Len(angles) = 2 /\ K = 2
    /\ Len(ExpansionTrain) = 8
    /\ ExpansionTrain[8].rot = <<30, 60>>
    /\ ExpansionTrain[8].file = ExpansionTrain[2].file

\* C30: the rotation loops terminate: for each angle the inner loop runs
\* exactly as many iterations as the expansion train partition had records
\* when the pass began, although every iteration appends to that partition;
\* the rotation cell always reaches its end.
C30_Terminates ==
    /\ [][/\ (loop.n = None /\ loop'.n # None) =>
               (loop'.n = Len(ExpansionTrain) /\ loop'.i = 0)
          /\ (loop.n # None /\ loop'.n # None) =>
               (loop'.n = loop.n /\ loop'.i = loop.i + 1 /\ loop'.i <= loop.n)
          /\ (loop.n # None /\ loop'.n = None) => loop.i = loop.n]_vars
    /\ (cell = "rotate") ~> (cell = "flip")
\* the rotation cell has ended after three passes of 2, 4 and 8 iterations
C30_Witness ==
    /\ cell = "flip" /\ loop.j = 3 /\ Len(angles) = 3
    /\ K = 2 /\ Len(ExpansionTrain) = 16

\* The records of a class pool before the shuffle.
Pool(c) ==
    IF nb = "cnn" THEN Images(c, "train_val")
    ELSE Paired(Rows(c, "train_val"), Images(c, "train_val"))
Occurrences(seq, r) == Cardinality({k \in 1..Len(seq) : seq[k] = r})
SplitHasRun == cell \in {"divide", "rotate", "flip", "label", "concatenate",
                         "expand_dims", "done"}
JustSplit == cell = "divide" \/ (nb = "cnn" /\ cell = "rotate" /\ loop.j = 0 /\ loop.n = None)

LabelledByClass(x, y) ==
    /\ Len(y) = Len(x)
    /\ \A k \in 1..Len(x) : y[k] = (IF x[k].class = "expansion" THEN 1 ELSE 0)
    /\ \A a, b \in 1..Len(x) :
          (x[a].class = "expansion" /\ x[b].class = "no_expansion") => a < b

\* C10: in every emitted split the data tensor is the expansion records
\* followed by the no-expansion records, the label vector is as long as the
\* data tensor, and label[i] is 1 exactly at the expansion-derived records.
C10_Labels ==
    cell = "done" =>
        /\ LabelledByClass(x_train, y_train)
        /\ LabelledByClass(x_val, y_val)
        /\ LabelledByClass(x_test, y_test)
        /\ nb = "mm" =>
              /\ LabelledByClass(tabular_x_train, y_train)
              /\ LabelledByClass(tabular_x_val, y_val)
              /\ LabelledByClass(tabular_x_test, y_test)

\* C11: in the multimodal output, for every split the tabular tensor, the
\* image tensor and the label vector have the same first-dimension length,
\* whatever csv row counts and file counts the cells accepted without error.
C11_EqualN ==
    (nb = "mm" /\ cell = "done") =>
        /\ Len(tabular_x_train) = Len(x_train) /\ Len(y_train) = Len(x_train)
        /\ Len(tabular_x_val) = Len(x_val) /\ Len(y_val) = Len(x_val)
        /\ Len(tabular_x_test) = Len(x_test) /\ Len(y_test) = Len(x_test)

\* C27: the test sets are never shuffled, split or augmented: the emitted
\* test tensor is the expansion test cases in sorted file order followed by
\* the no-expansion test cases in sorted file order, and its labels are
\* [1] * len(expansion_test) ++ [0] * len(no_expansion_test).
C27_TestSets ==
    /\ (cell \notin {"idle", "create"} /\ failing = <<>>) =>
          \A c \in Class : image_test[c] = Images(c, "test")
    /\ cell \in {"expand_dims", "done"} =>
          /\ x_test = Images("expansion", "test") \o Images("no_expansion", "test")
          /\ y_test = [k \in 1..Len(x_test) |->
                         IF k <= Len(Images("expansion", "test")) THEN 1 ELSE 0]

\* The image records and the table rows of the first 70% of a class's
\* shuffled pool: the train partition before augmentation.
TrainPartition(c) == SubSeq(train_val[c], 1, (7 * Len(train_val[c])) \div 10)
TrainImages ==
    UNION {{IF nb = "cnn" THEN TrainPartition(c)[k] ELSE TrainPartition(c)[k][2] :
              k \in 1..Len(TrainPartition(c))} : c \in Class}
TrainRows ==
    UNION {{TrainPartition(c)[k][1] : k \in 1..Len(TrainPartition(c))} : c \in Class}
\* The record a copy was rotated or mirrored from.
Plain(x) == [x EXCEPT !.rot = <<>>, !.flip = FALSE]
CaseOf(x) == <<x.class, x.role, x.file>>
Unaugmented(x) ==
    \A k \in 1..Len(x) :
        /\ x[k] = Plain(x[k])
        /\ CaseOf(x[k]) \notin {CaseOf(t) : t \in TrainImages}

\* C28: no case leaks across splits: every record of the final train tensor
\* is an original record of a train partition or a rotated/flipped copy of
\* one; the validation and test tensors hold only unaugmented records, none
\* of which is, or is derived from, a case of a train partition (the files
\* being distinct cases).
C28_NoLeak ==
    cell \in {"expand_dims", "done"} =>
        /\ \A k \in 1..Len(x_train) : Plain(x_train[k]) \in TrainImages
        /\ Unaugmented(x_val) /\ Unaugmented(x_test)
        /\ nb = "mm" =>
              /\ \A k \in 1..Len(tabular_x_train) : tabular_x_train[k] \in TrainRows
              /\ \A k \in 1..Len(tabular_x_val) : tabular_x_val[k] \notin TrainRows
              /\ \A k \in 1..Len(tabular_x_test) : tabular_x_test[k] \notin TrainRows
\* the multimodal tensors are emitted: two expansion cases in the train
\* tensor, one of them as a rotated and mirrored copy, and two other
\* expansion cases in the validation tensor
C28_Witness ==
    /\ nb = "mm" /\ cell = "done"
    /\ \E k \in 1..Len(x_train) : x_train[k].rot = <<30>> /\ x_train[k].flip
    /\ Cardinality({CaseOf(t) : t \in TrainImages}) >= 3
    /\ Cardinality({x_val[k].file : k \in {i \in 1..Len(x_val) :
                                              x_val[i].class = "expansion"}}) = 2
    /\ Len(x_test) > 0

\* The arrays the augmentation cells do not own.
Untouched ==
    <<train["no_expansion"], val, tabular_train["no_expansion"],
      image_train["no_expansion"], tabular_val, image_val,
      image_test, tabular_test, train_val>>

\* C13: the rotation and flip cells change only the expansion class's train
\* partition: the no-expansion train partition, both validation partitions
\* and both test sets keep their records and their order.
C13_Frame ==
    [][(cell = "rotate" \/ cell = "flip") => (Untouched' = Untouched)]_vars
\* both augmentation cells have run: the expansion train partition has grown
\* beside a no-expansion train partition, validation partitions and test sets
\* that hold records
C13_Witness ==
    /\ cell = "label"
    /\ Len(ExpansionTrain) = 4 * K /\ K > 0
    /\ (IF nb = "cnn" THEN train["no_expansion"] ELSE image_train["no_expansion"]) # <<>>
    /\ val["expansion"] # <<>> /\ val["no_expansion"] # <<>>
    /\ image_test["expansion"] # <<>> /\ image_test["no_expansion"] # <<>>

\* The image class arrays, and everything the later cells build from them.
ImageArrays == <<train_val, image_train_val, image_test>>
Downstream ==
    <<train, val, dividedVars, labelVars, outVars>>
NoDownstream ==
    Downstream = <<NoArrays, NoArrays, <<NoArrays, NoArrays, NoArrays, NoArrays>>,
                   <<NoArrays, NoArrays, NoArrays>>,
                   <<<<>>, <<>>, <<>>, <<>>, <<>>, <<>>, <<>>, <<>>, <<>>>>>>
Aborted == cell = "error" /\ failing # <<>>

\* C19 as stated: when processing a case file raises, no class array, split
\* or output tensor is produced from the cases that did succeed.
C19_Original ==
    Aborted => /\ ImageArrays = <<NoArrays, NoArrays, NoArrays>>
               /\ NoDownstream
\* C19 amended: when processing a case file raises, the cell stops: the class
\* array of the failing file's directory and of every directory read after
\* it is not produced, no split, label vector or output tensor is produced,
\* and a class array that does exist (a directory read before the failing
\* one) holds every file of its directory.
C19_Amended ==
    Aborted =>
        /\ NoDownstream
        /\ \A d \in Dir :
              LET arr == IF d[2] = "test" THEN image_test[d[1]]
                         ELSE IF nb = "cnn" THEN train_val[d[1]]
                         ELSE image_train_val[d[1]]
              IN  /\ Position(d) >= Position(failing) => arr = <<>>
                  /\ arr \in {<<>>, Images(d[1], d[2])}
        /\ nb = "mm" => train_val = NoArrays
\* a file of the no-expansion test directory raised after the three
\* directories before it had been read
C19_Witness ==
    /\ Aborted /\ failing = <<"no_expansion", "test">>
    /\ Len(image_test["expansion"]) = 2 /\ image_test["no_expansion"] = <<>>
    /\ files[<<"no_expansion", "test">>] = 2

\* ------------------------------------- a cohort of ten cases per class

\* One case file of the cohort (256 x 256 x 40 voxels of 1 x 1 x 1 mm) goes
\* through get_processed_images, then the cells run on directories of ten
\* expansion and ten no-expansion cases (two test cases per class).
TenInit ==
    /\ kind = "image" /\ pc = "density_scaling"
    /\ shape = <<256, 256, 40>>
    /\ header = [pixdim1 |-> 1000, pixdim3 |-> 1000,
                 dim1 |-> 256, dim2 |-> 256, dim3 |-> 40]
    /\ image = {<<0, 100 * One>>}
    /\ padding = NoPadding /\ slices = <<>> /\ fdata = image
    /\ nb \in {"cnn", "mm"}
    /\ files = [d \in Dir |-> IF d[2] = "train_val" THEN 10 ELSE 2]
    /\ rows = IF nb = "cnn" THEN [d \in Dir |-> 0] ELSE files
    /\ failing = <<>> /\ angles = notebook_angles
    /\ cell = "create" /\ run = 1 /\ first = <<>>
    /\ Fresh
    /\ VoxelIdle /\ RestIdle

\* The data-array cell runs once get_processed_images has returned.
TenNext == PipeNext \/ (pc = "done" /\ CreateArrays) \/ Cells

SpecTen == TenInit /\ [][TenNext]_vars

\* C12: with 10 expansion and 10 no-expansion cases of 40 native slices at
\* 1 mm (20 resampled slices behind 60 prepended zero slices), the split gives
\* 7 train and 3 validation records per class; after the 30-degree rotation
\* and the flip the expansion train partition has 28 records and the
\* no-expansion one still 7; the final train tensor has 35 records with
\* labels [1]*28 + [0]*7.
C12_Counts ==
    /\ pc \in {"unify", "resize", "rotate", "done"} =>
          slices = [k \in 1..80 |-> IF k <= 60 THEN 0 ELSE k - 60]
    /\ JustSplit => \A c \in Class : Len(train[c]) = 7
    /\ SplitHasRun => \A c \in Class : Len(val[c]) = 3
    /\ cell \in {"label", "concatenate", "expand_dims", "done"} =>
          /\ Len(ExpansionTrain) = 28
          /\ Len(IF nb = "cnn" THEN train["no_expansion"]
                 ELSE image_train["no_expansion"]) = 7
    /\ cell \in {"expand_dims", "done"} =>
          /\ Len(x_train) = 35
          /\ y_train = [k \in 1..35 |-> IF k <= 28 THEN 1 ELSE 0]
          /\ \A k \in 1..35 :
                x_train[k].class = (IF k <= 28 THEN "expansion" ELSE "no_expansion")
          /\ Len(x_val) = 6
\* the cohort's tensors are emitted: 35 train records, the case file behind
\* them having 60 zero slices before its 20 resampled ones
C12_Witness ==
    /\ cell = "done" /\ pc = "done"
    /\ Len(x_train) = 35 /\ Len(y_train) = 35
    /\ slices[60] = 0 /\ slices[61] = 1 /\ slices[80] = 20
    /\ x_train[28].rot = <<30>> /\ x_train[28].flip

\* ------------------------------------ standardizing the clinical columns

\* The most rows a train+validation table holds.
MaxRows == 2

\* The columns the cell standardizes, in the order of its four blocks; a
\* table row holds their values in this order.
ColumnOrder == <<"Systolic blood pressure, mmHg", "Diastolic blood pressure, mmHg",
                 "PT-INR", "Time from onset to baseline CT scan, h">>
\* The rows drawn for the tables (PT-INR in tenths).
ClinicalRows == {<<120, 80, 10, 2>>, <<200, 80, 12, 5>>, <<160, 95, 10, 2>>}

\* A value of a data frame: (value - mean_) / scale_, with mean_ the rational
\* <<sum, n>> and scale_ the square root of the rational <<num, den>>.  A value
\* read from the csv file is itself: mean_ 0 and scale_ 1.
AsRead(v) == [value |-> v, mean_ |-> <<0, 1>>, scale_ |-> <<1, 1>>]
Frame(table) == [k \in 1..Len(table) |-> [j \in 1..Len(ColumnOrder) |-> AsRead(table[k][j])]]

RECURSIVE Sum(_)
Sum(seq) == IF seq = <<>> THEN 0 ELSE seq[1] + Sum(Tail(seq))
Column(frame, j) == [k \in 1..Len(frame) |-> frame[k][j].value]

\* (a variant that pools the column of all four frames)
PooledAll(frames, j) ==
    Column(frames[DirOrder[1]], j) \o Column(frames[DirOrder[2]], j)
      \o Column(frames[DirOrder[3]], j) \o Column(frames[DirOrder[4]], j)
\* pd.concat([df_expansion_train[[column]], df_no_expansion_train[[column]]])
Pooled(frames, j) ==
    Column(frames[<<"expansion", "train_val">>], j)
      \o Column(frames[<<"no_expansion", "train_val">>], j)

\* scaler.fit(X): mean_ = sum / n; var_ = (n * sum of squares - sum^2) / n^2
\* (the population variance); scale_ = sqrt(var_), or 1 where var_ is 0.
Fitted(X) ==
    LET n == Len(X)
        sum == Sum(X)
        sq == Sum([k \in 1..n |-> X[k] * X[k]])
        var_ == <<n * sq - sum * sum, n * n>>
    IN  [mean_ |-> <<sum, n>>,
         scale_ |-> IF var_[1] = 0 THEN <<1, 1>> ELSE var_]

\* scaler.transform(df[[column]]) assigned back to the column
Transformed(frame, j, sc) ==
    [k \in 1..Len(frame) |->
       [frame[k] EXCEPT ![j] = [value |-> @.value, mean_ |-> sc.mean_, scale_ |-> sc.scale_]]]

ScaleInit ==
    /\ \E te \in ClinicalRows, tn \in ClinicalRows, n \in 1..MaxRows :
       \E e \in [1..n -> ClinicalRows], ne \in [1..1 -> ClinicalRows] :
          csv = [d \in Dir |->
                   IF d = <<"expansion", "train_val">> THEN e
                   ELSE IF d = <<"no_expansion", "train_val">> THEN ne
                   ELSE IF d = <<"expansion", "test">> THEN <<te>> ELSE <<tn>>]
    /\ df = [d \in Dir |-> Frame(csv[d])]
    /\ scaler = <<>>
    /\ spc = [col |-> 1, step |-> 0]
    /\ CohortIdle /\ FactorIdle /\ PipeIdle /\ VoxelIdle /\ AsmIdle

\* (a variant that fits the scaler for the first column only)
FitOnce ==
    /\ spc.col \in 1..Len(ColumnOrder) /\ spc.step = 0
    /\ scaler' = IF spc.col = 1 THEN Fitted(Pooled(df, spc.col)) ELSE scaler
    /\ spc' = [spc EXCEPT !.step = 1]
    /\ UNCHANGED <<csv, df, cohortVars, factorVars, pipeVars, voxelVars, asmVars>>

\* scaler.fit(pd.concat([df_expansion_train[[column]], df_no_expansion_train[[column]]]))
Fit ==
    /\ spc.col \in 1..Len(ColumnOrder) /\ spc.step = 0
    /\ scaler' = Fitted(Pooled(df, spc.col))
    /\ spc' = [spc EXCEPT !.step = 1]
    /\ UNCHANGED <<csv, df, cohortVars, factorVars, pipeVars, voxelVars, asmVars>>

\* df[[column]] = scaler.transform(df[[column]]), for the four frames in turn
Transform ==
    /\ spc.col \in 1..Len(ColumnOrder) /\ spc.step \in 1..Len(DirOrder)
    /\ df' = [df EXCEPT ![DirOrder[spc.step]] = Transformed(@, spc.col, scaler)]
    /\ spc' = IF spc.step < Len(DirOrder) THEN [spc EXCEPT !.step = @ + 1]
              ELSE [col |-> spc.col + 1, step |-> 0]
    /\ UNCHANGED <<csv, scaler, cohortVars, factorVars, pipeVars, voxelVars, asmVars>>

ScaleNext == Fit \/ Transform

SpecScale == ScaleInit /\ [][ScaleNext]_vars

\* The statistics of column j over the train+validation rows of both classes,
\* as the csv files hold them.
TrainingValues(j) ==
    [k \in 1..Len(csv[<<"expansion", "train_val">>]) |-> csv[<<"expansion", "train_val">>][k][j]]
      \o [k \in 1..Len(csv[<<"no_expansion", "train_val">>]) |->
            csv[<<"no_expansion", "train_val">>][k][j]]
TrainingMean(j) == <<Sum(TrainingValues(j)), Len(TrainingValues(j))>>
TrainingVariance(j) ==
    LET X == TrainingValues(j)
        n == Len(X)
    IN  <<n * Sum([k \in 1..n |-> X[k] * X[k]]) - Sum(X) * Sum(X), n * n>>
\* Has the cell transformed column j of the frame of directory d?
IsStandardized(d, j) ==
    \/ spc.col > j
    \/ spc.col = j /\ spc.step > Position(d)

\* C24: in the standardization cell every scaler.transform of a column uses
\* the parameters of the most recent scaler.fit, and that fit was computed on
\* the same column's pooled training values while they were still as read;
\* no column is transformed with another column's fit, and no fit is computed
\* on values already standardized.
C24_FitThenTransform ==
    [][/\ (spc.step = 0 /\ spc'.step = 1) =>
            /\ \A d \in {DirOrder[1], DirOrder[2]} : \A k \in 1..Len(df[d]) :
                   df[d][k][spc.col] = AsRead(csv[d][k][spc.col])
            /\ scaler' = Fitted(TrainingValues(spc.col))
       /\ (spc.step >= 1 /\ spc' # spc) =>
            /\ scaler = Fitted(TrainingValues(spc.col))
            /\ scaler' = scaler
            /\ \A k \in 1..Len(df[DirOrder[spc.step]]) :
                   df'[DirOrder[spc.step]][k][spc.col] =
                      [value |-> csv[DirOrder[spc.step]][k][spc.col],
                       mean_ |-> scaler.mean_, scale_ |-> scaler.scale_]]_vars
\* the diastolic column of the expansion test table has just been transformed
\* with the diastolic fit, which differs from the systolic fit used before
C24_Witness ==
    /\ spc = [col |-> 2, step |-> 4]
    /\ scaler = Fitted(TrainingValues(2))
    /\ scaler # Fitted(TrainingValues(1))
    /\ df[DirOrder[3]][1][2].mean_ = scaler.mean_
    /\ df[DirOrder[3]][1][1].mean_ = Fitted(TrainingValues(1)).mean_
    /\ df[DirOrder[4]][1][2] = AsRead(csv[DirOrder[4]][1][2])

\* C14: each of the four numeric columns of all four tables is transformed
\* with the mean and the standard deviation of the pooled expansion and
\* no-expansion train+validation tables only: every value v, a test value
\* too, becomes (v - training mean) / training std (the training std being
\* positive), and no test row enters the statistics.
C14_TrainingStatistics ==
    \A d \in Dir, j \in 1..Len(ColumnOrder) :
        \A k \in 1..Len(df[d]) :
            IF IsStandardized(d, j)
            THEN TrainingVariance(j)[1] > 0 =>
                    df[d][k][j] = [value |-> csv[d][k][j],
                                   mean_ |-> TrainingMean(j),
                                   scale_ |-> TrainingVariance(j)]
            ELSE df[d][k][j] = AsRead(csv[d][k][j])
\* the cell has ended: a systolic pressure of 200 in the expansion test
\* table, a value no train+validation row holds, was standardized with the
\* train+validation mean of 140 and a positive standard deviation
C14_Witness ==
    /\ spc = [col |-> Len(ColumnOrder) + 1, step |-> 0]
    /\ csv[<<"expansion", "test">>][1][1] = 200
    /\ \A k \in 1..Len(TrainingValues(1)) : TrainingValues(1)[k] # 200
    /\ df[<<"expansion", "test">>][1][1].mean_ = <<280, 2>>
    /\ df[<<"expansion", "test">>][1][1].scale_[1] > 0
    /\ TrainingVariance(1)[1] > 0

\* --------------------------------- encoding the anticoagulant-use column

\* The most rows the expansion train+validation table holds in this part.
MaxColumn == 3

\* What a cell of the column can hold; NaN is an empty cell.
NaN == "nan"
AnticoagulantUse == {"No", "Yes", "Warfarin"}

\* The distinct values of a column in order of first appearance (the second
\* result of pd.factorize); missing cells are not among them.
RECURSIVE Uniques(_)
Uniques(column) ==
    IF column = <<>> THEN <<>>
    ELSE LET u == Uniques(SubSeq(column, 1, Len(column) - 1))
             x == column[Len(column)]
         IN  IF x = NaN \/ \E i \in 1..Len(u) : u[i] = x THEN u ELSE Append(u, x)
\* (a variant that numbers a value by the row of its first appearance)
factorize_rows(column) ==
    [k \in 1..Len(column) |->
       IF column[k] = NaN THEN 0 - 1
       ELSE (CHOOSE i \in 1..k : column[i] = column[k]
                                  /\ \A h \in 1..(i - 1) : column[h] # column[k]) - 1]
\* pd.factorize(column)[0]: the position of each value among the uniques,
\* from 0; -1 for a missing cell
factorize(column) ==
    [k \in 1..Len(column) |->
       IF column[k] = NaN THEN 0 - 1
       ELSE (CHOOSE i \in 1..Len(Uniques(column)) : Uniques(column)[i] = column[k]) - 1]

FactorizeInit ==
    /\ fpc = 1
    /\ \E n \in 0..MaxColumn :
       \E e \in [1..n -> AnticoagulantUse \cup {NaN}],
          ne \in AnticoagulantUse \cup {NaN}, te \in AnticoagulantUse, tn \in AnticoagulantUse :
          anticoagulant = [d \in Dir |->
                             IF d = <<"expansion", "train_val">> THEN e
                             ELSE IF d = <<"no_expansion", "train_val">> THEN <<ne>>
                             ELSE IF d = <<"expansion", "test">> THEN <<te>> ELSE <<tn, te>>]
    /\ encoded = [d \in Dir |-> <<>>]
    /\ TableIdle /\ CohortIdle /\ PipeIdle /\ VoxelIdle /\ AsmIdle

\* df["Anticoagulant use"] = pd.factorize(df["Anticoagulant use"])[0], for
\* the four frames in turn
Factorize ==
    /\ fpc \in 1..Len(DirOrder)
    /\ encoded' = [encoded EXCEPT ![DirOrder[fpc]] = factorize(anticoagulant[DirOrder[fpc]])]
    /\ fpc' = fpc + 1
    /\ UNCHANGED <<anticoagulant, tableVars, cohortVars, pipeVars, voxelVars, asmVars>>

SpecFactorize == FactorizeInit /\ [][Factorize]_vars

\* The values that appear in a column above row k.
Above(column, k) == {column[i] : i \in 1..(k - 1)} \ {NaN}

\* C25: the anticoagulant-use column of each of the four tables is encoded
\* independently: within a table a value's code is the 0-based rank of its
\* first occurrence among the distinct values of that same table, so equal
\* values of one table get equal codes and the codes follow from that
\* table's own row order alone.
C25_FirstOccurrence ==
    \A d \in Dir :
        LET column == anticoagulant[d] IN
        IF Position(d) < fpc
        THEN /\ Len(encoded[d]) = Len(column)
             /\ \A k \in 1..Len(column) :
                   column[k] # NaN =>
                     /\ encoded[d][k] >= 0
                     /\ column[k] \notin Above(column, k) =>
                           encoded[d][k] = Cardinality(Above(column, k))
                     /\ \A i \in 1..Len(column) :
                           column[i] = column[k] => encoded[d][i] = encoded[d][k]
        ELSE encoded[d] = <<>>
\* the cell has ended: "Yes" has code 1 in the expansion train+validation
\* table, where it follows two "No" rows, and code 0 in the tables where it
\* comes first
C25_Witness ==
    /\ fpc = 5
    /\ anticoagulant[DirOrder[1]] = <<"No", "No", "Yes">>
    /\ encoded[DirOrder[1]] = <<0, 0, 1>>
    /\ anticoagulant[DirOrder[4]] = <<"Yes", "No">>
    /\ encoded[DirOrder[4]] = <<0, 1>>

\* ------------------------------------- extract_hematoma, array by array

\* The most files a directory passed to extract_hematoma holds.
MaxFiles == 3

\* A directory's file names are numbered in lexicographic order: name 1
\* sorts first.  The processed volume of the file named k:
Volume(dir, k) == [dir |-> dir, file |-> k]
\* sorted(names): the names in ascending order, by insertion
RECURSIVE sorted(_)
Inserted(x, s) ==
    LET before == SelectSeq(s, LAMBDA y : y <= x)
        after == SelectSeq(s, LAMBDA y : y > x)
    IN  before \o <<x>> \o after
sorted(names) ==
    IF names = <<>> THEN <<>>
    ELSE Inserted(names[Len(names)], sorted(SubSeq(names, 1, Len(names) - 1)))
\* np.array([get_processed_images(j) for j in tqdm(list)]), list being the
\* sorted listing
Volumes(dir, names) == [k \in 1..Len(names) |-> Volume(dir, sorted(names)[k])]

\* NumPy broadcasting of original (n volumes) with mask (m volumes): the
\* leading axes must be equal, or one of them 1 and then that volume is
\* repeated.  An empty listing gives an array of shape (0,), which
\* broadcasts only with another empty one.
CanBroadcast(n, m) == n = m \/ (n = 1 /\ m > 1) \/ (m = 1 /\ n > 1)
\* hematoma = original - 1 + mask
Combined(o, m) ==
    [k \in 1..Max(Len(o), Len(m)) |->
       [original |-> o[IF Len(o) = 1 THEN 1 ELSE k],
        mask |-> m[IF Len(m) = 1 THEN 1 ELSE k]]]

ExtractInit ==
    /\ xpc = "original"
    /\ list \in 0..MaxFiles /\ list_mask \in 0..MaxFiles
    /\ listdir \in Orders(list) /\ listdir_mask \in Orders(list_mask)
    /\ unreadable \in {<<>>} \cup ({"path"} \X (1..list)) \cup ({"path_mask"} \X (1..list_mask))
    /\ originals = <<>> /\ masks = <<>> /\ hematomas = <<>>
    /\ TableIdle /\ FactorIdle /\ PipeIdle /\ VoxelIdle /\ AsmIdle

\* original = np.array([get_processed_images(j) for j in tqdm(list)])
\* original = original.astype('float32')
LoadOriginal ==
    /\ xpc = "original"
    /\ IF unreadable # <<>> /\ unreadable[1] = "path"
       THEN xpc' = "error" /\ UNCHANGED originals
       ELSE xpc' = "mask" /\ originals' = Volumes("path", listdir)
    /\ UNCHANGED <<listdir, listdir_mask, list, list_mask, unreadable, masks, hematomas>>
    /\ UNCHANGED <<tableVars, factorVars, pipeVars, voxelVars, asmVars>>

\* mask = np.array([get_processed_images_mask(j) for j in tqdm(list_mask)])
\* mask = mask.astype('float32')
LoadMask ==
    /\ xpc = "mask"
    /\ IF unreadable # <<>> /\ unreadable[1] = "path_mask"
       THEN xpc' = "error" /\ UNCHANGED masks
       ELSE xpc' = "combine" /\ masks' = Volumes("path_mask", listdir_mask)
    /\ UNCHANGED <<listdir, listdir_mask, list, list_mask, unreadable, originals, hematomas>>
    /\ UNCHANGED <<tableVars, factorVars, pipeVars, voxelVars, asmVars>>

\* hematoma = original - 1 + mask; hematoma[hematoma <= 0] = 0; return hematoma
Combine ==
    /\ xpc = "combine"
    /\ IF CanBroadcast(Len(originals), Len(masks))
       THEN xpc' = "returned" /\ hematomas' = Combined(originals, masks)
       ELSE xpc' = "error" /\ UNCHANGED hematomas
    /\ UNCHANGED <<listdir, listdir_mask, list, list_mask, unreadable, originals, masks>>
    /\ UNCHANGED <<tableVars, factorVars, pipeVars, voxelVars, asmVars>>

ExtractNext == LoadOriginal \/ LoadMask \/ Combine

SpecExtract == ExtractInit /\ [][ExtractNext]_vars

\* C18: if the image directory and the mask directory hold different numbers
\* of files, extract_hematoma fails and returns no hematoma array; it never
\* combines N images with M # N masks into an output.
C18_CountMismatch ==
    list # list_mask => (xpc # "returned" /\ hematomas = <<>>)

\* The i-th name of a listing in lexicographic order, whatever order the
\* listing came in.
Ranked(names, i) ==
    CHOOSE x \in {names[k] : k \in 1..Len(names)} :
        Cardinality({k \in 1..Len(names) : names[k] <= x}) = i

\* C22: extract_hematoma pairs by position in lexicographic file-name order:
\* output volume i is computed from the i-th file of the sorted image listing
\* and the i-th file of the sorted mask listing, for every i, whatever order
\* the file system returned the names in.
C22_SortedPairing ==
    xpc = "returned" =>
        \A i \in 1..Len(hematomas) :
            /\ i <= Len(listdir) /\ i <= Len(listdir_mask)
            /\ hematomas[i].original = Volume("path", Ranked(listdir, i))
            /\ hematomas[i].mask = Volume("path_mask", Ranked(listdir_mask, i))
\* The same for a call whose two directories hold equally many files.
C22_EqualCounts ==
    (xpc = "returned" /\ Len(listdir) = Len(listdir_mask)) =>
        /\ Len(hematomas) = Len(listdir)
        /\ \A i \in 1..Len(hematomas) :
              /\ hematomas[i].original = Volume("path", Ranked(listdir, i))
              /\ hematomas[i].mask = Volume("path_mask", Ranked(listdir_mask, i))

====
